---- MODULE Spec2Model ----
(***************************************************************************)
(* The DYOM mission validator: a raw document is decoded into a Mission    *)
(* (Mission.model_validate) and the three validation passes of             *)
(* validate_mission.py run over it, appending to one ValidationResult;     *)
(* main then prints the result and exits with the status is_valid decides. *)
(*                                                                         *)
(* Records stand for Python objects: DOMAIN r is the set of attributes the *)
(* object has.  Python indices are 0-based, sequence positions 1-based, so *)
(* the entity at position i has index i - 1.                               *)
(***************************************************************************)
EXTENDS Integers, Sequences, FiniteSets, TLC

VARIABLES doc, file, mission, result, pc, exc, out, status, codec

vars == <<doc, file, mission, result, pc, exc, out, status, codec>>

(***************************************************************************)
(* Bounds of the explored documents.                                       *)
(***************************************************************************)
\* how far around each threshold (0, 90% of the maximum, the maximum) the
\* collection sizes and route lengths range
Near == 1
\* route ids range over 0..MaxId, reference values over -1..MaxId + 1
MaxId == 1
\* the largest number of routes in a document of the route-point family
MaxRoutes == 3
\* the largest number of objectives in a document of the objective-sequence
\* family
MaxObjectives == 2
\* the packed integers explored by the bitfield codecs are 0..MaxPacked
MaxPacked == 264

(***************************************************************************)
(* Python values.                                                          *)
(***************************************************************************)
\* Python's None: a value outside the range of every integer field
None == -1000

\* dict.get(key, default) / attribute lookup with a default
Get(r, key, default) == IF key \in DOMAIN r THEN r[key] ELSE default

\* [x] * n
Rep(n, x) == [i \in 1..n |-> x]

RECURSIVE Concat(_)
\* the concatenation of a sequence of sequences
Concat(ss) == IF ss = <<>> THEN <<>> ELSE Head(ss) \o Concat(Tail(ss))

(***************************************************************************)
(* ValidationResult.                                                       *)
(***************************************************************************)
\* A message: its fixed text, the thing it is about, and the two numbers it
\* formats (count and maximum, or index and reference value).
Msg(text, what, n, m) == [text |-> text, what |-> what, n |-> n, m |-> m]

Prefixed(level, msg) ==
    [level |-> level, text |-> msg.text, what |-> msg.what, n |-> msg.n, m |-> msg.m]

NewResult == [errors |-> <<>>, warnings |-> <<>>, info |-> <<>>]

\* a variant of add_error that puts the message first (insert(0, ...))
add_error_first(r, msg) == [r EXCEPT !.errors = <<Prefixed("ERROR", msg)>> \o @]

add_error(r, msg) == [r EXCEPT !.errors = Append(@, Prefixed("ERROR", msg))]

add_warning(r, msg) == [r EXCEPT !.warnings = Append(@, Prefixed("WARNING", msg))]

add_info(r, msg) == [r EXCEPT !.info = Append(@, Prefixed("INFO", msg))]

\* a variant of is_valid that also wants no warning
is_valid_without_warnings(r) == Len(r.errors) = 0 /\ Len(r.warnings) = 0

is_valid(r) == Len(r.errors) = 0

\* a variant of print_results in order of severity: errors first
print_results_by_severity(r) == r.errors \o r.warnings \o r.info

\* the lines print_results prints, in order
print_results(r) == r.info \o r.warnings \o r.errors

(***************************************************************************)
(* Decoding: each model keeps its declared fields (extra keys of the raw   *)
(* record are ignored), fills defaults, and reports every field whose      *)
(* value breaks its constraint.  A decoder yields [value, errs].           *)
(***************************************************************************)
\* one entry of ValidationError.errors(): the field path, the index of the
\* item in its collection and the offending value
SchemaError(path, idx, value) == Msg("Field error", path, idx, value)

\* The members of the IntEnum types: a field of such a type takes a member
\* and nothing else.
Weather == 0..22
Gang == (4..14) \cup (17..26)
CheckpointShape == 0..5
CitizenBehaviourMode == 0..4

\* AnimationInfo: route is an int >= 0 when given, None by default
DecodeAnimationInfo(raw, path, idx) ==
    LET route == Get(raw, "route", None)
    IN [value |-> [route |-> route],
        errs  |-> IF route /= None /\ route < 0
                  THEN <<SchemaError(path \o ".animation_info.route", idx, route)>>
                  ELSE <<>>]

\* Actor: skin (required, >= 0), gang (a Gang), flags (>= 0), weapon (an
\* int >= 0), animation_argument
DecodeActor(raw, idx) ==
    LET skin   == Get(raw, "skin", None)
        gang   == Get(raw, "gang", 4)
        flags  == Get(raw, "flags", 0)
        weapon == Get(raw, "weapon", 0)
    IN [value |-> [skin |-> skin, gang |-> gang, flags |-> flags, weapon |-> weapon,
                   animation_argument |-> Get(raw, "animation_argument", 0)],
        errs  |-> (IF skin = None \/ skin < 0
                   THEN <<SchemaError("actors.skin", idx, skin)>> ELSE <<>>)
                  \o (IF gang \notin Gang
                      THEN <<SchemaError("actors.gang", idx, gang)>> ELSE <<>>)
                  \o (IF flags < 0
                      THEN <<SchemaError("actors.flags", idx, flags)>> ELSE <<>>)
                  \o (IF weapon < 0
                      THEN <<SchemaError("actors.weapon", idx, weapon)>> ELSE <<>>)]

\* Car: health (>= 0)
DecodeCar(raw, idx) ==
    LET health == Get(raw, "health", 1000)
    IN [value |-> [health |-> health],
        errs  |-> IF health < 0
                  THEN <<SchemaError("cars.health", idx, health)>> ELSE <<>>]

\* Pickup: ammo (>= 0)
DecodePickup(raw, idx) ==
    LET ammo == Get(raw, "ammo", 0)
    IN [value |-> [ammo |-> ammo],
        errs  |-> IF ammo < 0
                  THEN <<SchemaError("pickups.ammo", idx, ammo)>> ELSE <<>>]

\* Object: interior 0..7, behaviour None or 0..4, route_id None or >= 1
DecodeObject(raw, idx) ==
    LET interior  == Get(raw, "interior", 0)
        behaviour == Get(raw, "behaviour", None)
        route_id  == Get(raw, "route_id", None)
    IN [value |-> [interior |-> interior, behaviour |-> behaviour,
                   route_id |-> route_id],
        errs  |-> (IF interior < 0 \/ interior > 7
                   THEN <<SchemaError("objects.interior", idx, interior)>>
                   ELSE <<>>)
                  \o (IF behaviour /= None /\ (behaviour < 0 \/ behaviour > 4)
                      THEN <<SchemaError("objects.behaviour", idx, behaviour)>>
                      ELSE <<>>)
                  \o (IF route_id /= None /\ route_id < 1
                      THEN <<SchemaError("objects.route_id", idx, route_id)>>
                      ELSE <<>>)]

\* Route: id (required, >= 0), points
DecodeRoute(raw, path, idx) ==
    LET id == Get(raw, "id", None)
    IN [value |-> [id |-> id, points |-> Get(raw, "points", <<>>)],
        errs  |-> IF id = None \/ id < 0
                  THEN <<SchemaError(path \o ".id", idx, id)>> ELSE <<>>]

(***************************************************************************)
(* The objective union.  A variant is named by the tag its objective_type  *)
(* field is a Literal of; AnyObjective lists the variants in the order of  *)
(* the Union.                                                              *)
(***************************************************************************)
\* The Literal tag of ObjectiveMoneySub.  objectives/money_sub.py is not among
\* the sources; the variant is taken to declare the tag ObjectiveType names
\* MONEY_SUB, with that tag as its default, as the twenty others do.
ObjectiveMoneySub == 21

AnyObjective ==
    <<1, 2, 3, 5, 6, 7, 8, 9, 10, 11, 12, 13, 14, 15, 16, 17, 18, 19, 20,
      ObjectiveMoneySub, 22>>

VariantName(v) ==
    CASE v = 1 -> "ObjectiveCar"               [] v = 2 -> "ObjectiveCheckpoint"
      [] v = 3 -> "ObjectivePickup"            [] v = 5 -> "ObjectiveActor"
      [] v = 6 -> "ObjectiveCutscene"          [] v = 7 -> "ObjectivePlayerTeleport"
      [] v = 8 -> "ObjectiveCountdown"         [] v = 9 -> "ObjectivePlayerTeleportCar"
      [] v = 10 -> "ObjectiveTimeout"          [] v = 11 -> "ObjectiveWeather"
      [] v = 12 -> "ObjectiveDayTime"          [] v = 13 -> "ObjectiveCitizenBehaviour"
      [] v = 14 -> "ObjectiveWantedLevel"      [] v = 15 -> "ObjectiveTimelimit"
      [] v = 16 -> "ObjectiveTimerStart"       [] v = 17 -> "ObjectivePlayerDisarm"
      [] v = 18 -> "ObjectivePhoneCall"        [] v = 19 -> "ObjectiveObject"
      [] v = 20 -> "ObjectiveMoneyAdd"
      [] v = ObjectiveMoneySub -> "ObjectiveMoneySub"
      [] v = 22 -> "ObjectivePlayerAnimation"

\* Optional[AnimationInfo]: <<>> is None, <<a>> an AnimationInfo
DecodeOptionalAnimationInfo(raw, path, idx) ==
    LET given == Get(raw, "animation_info", <<>>)
    IN IF given = <<>> THEN [value |-> <<>>, errs |-> <<>>]
       ELSE LET a == DecodeAnimationInfo(given[1], path, idx)
            IN [value |-> <<a.value>>, errs |-> a.errs]

\* a variant of ObjectiveCutscene_behaviour that keeps the documented bits
\* 0..11 only
ObjectiveCutscene_behaviour_documented_bits(raw) ==
    Get(raw, "behaviour", 0) % 4096

\* ObjectiveCutscene.behaviour: the composite is held as one int, default 0
ObjectiveCutscene_behaviour(raw) ==
    Get(raw, "behaviour", 0)

\* The variant-specific fields of variant v that carry a model id, an index,
\* a route, an enumeration or a composite: ObjectiveCar.car_id,
\* ObjectivePlayerTeleportCar.car_id (required), ObjectivePickup.object_id,
\* ObjectiveObject.object_id / behaviour / route_id,
\* ObjectiveCutscene.behaviour / actor_idx, ObjectiveCheckpoint.shape /
\* radar_marker, ObjectiveWeather.weather, ObjectiveCitizenBehaviour.mode,
\* and the animation_info of ObjectiveActor and ObjectivePlayerAnimation.
DecodeVariantFields(v, raw, idx) ==
    LET path == "objectives." \o VariantName(v)
        Bad(field, value) == <<SchemaError(path \o "." \o field, idx, value)>>
    IN CASE v = 1 ->
              LET car_id == Get(raw, "car_id", 526)
              IN [value |-> [car_id |-> car_id],
                  errs  |-> IF car_id < 400 \/ car_id > 611
                            THEN Bad("car_id", car_id) ELSE <<>>]
         [] v = 9 ->
              LET car_id == Get(raw, "car_id", None)
              IN [value |-> [car_id |-> car_id],
                  errs  |-> IF car_id = None \/ car_id < 400 \/ car_id > 611
                            THEN Bad("car_id", car_id) ELSE <<>>]
         [] v = 3 ->
              LET object_id == Get(raw, "object_id", 1210)
              IN [value |-> [object_id |-> object_id],
                  errs  |-> IF object_id < 0
                            THEN Bad("object_id", object_id) ELSE <<>>]
         [] v = 19 ->
              LET object_id == Get(raw, "object_id", 1221)
                  behaviour == Get(raw, "behaviour", None)
                  route_id  == Get(raw, "route_id", None)
              IN [value |-> [object_id |-> object_id, behaviour |-> behaviour,
                             route_id |-> route_id],
                  errs  |-> (IF object_id < -467
                             THEN Bad("object_id", object_id) ELSE <<>>)
                            \o (IF behaviour /= None /\ (behaviour < 0 \/ behaviour > 4)
                                THEN Bad("behaviour", behaviour) ELSE <<>>)
                            \o (IF route_id /= None /\ route_id < 1
                                THEN Bad("route_id", route_id) ELSE <<>>)]
         [] v = 6 ->
              LET behaviour == ObjectiveCutscene_behaviour(raw)
                  actor_idx == Get(raw, "actor_idx", 0)
              IN [value |-> [behaviour |-> behaviour, actor_idx |-> actor_idx],
                  errs  |-> (IF behaviour < 0
                             THEN Bad("behaviour", behaviour) ELSE <<>>)
                            \o (IF actor_idx < 0 \/ actor_idx > 99
                                THEN Bad("actor_idx", actor_idx) ELSE <<>>)]
         [] v = 2 ->
              LET shape == Get(raw, "shape", 0)
              IN [value |-> [shape |-> shape,
                             radar_marker |-> Get(raw, "radar_marker", 4)],
                  errs  |-> IF shape \notin CheckpointShape
                            THEN Bad("shape", shape) ELSE <<>>]
         [] v = 11 ->
              LET weather == Get(raw, "weather", 0)
              IN [value |-> [weather |-> weather],
                  errs  |-> IF weather \notin Weather
                            THEN Bad("weather", weather) ELSE <<>>]
         [] v = 13 ->
              LET mode == Get(raw, "mode", 0)
              IN [value |-> [mode |-> mode],
                  errs  |-> IF mode \notin CitizenBehaviourMode
                            THEN Bad("mode", mode) ELSE <<>>]
         [] v \in {5, 22} ->
              LET a == DecodeOptionalAnimationInfo(raw, path, idx)
              IN [value |-> [animation_info |-> a.value], errs |-> a.errs]
         [] OTHER -> [value |-> [unused_1 |-> 0], errs |-> <<>>]

\* a variant of VariantResult that takes any tag (objective_type an int,
\* as ObjectiveBase declares it, instead of the variant's Literal)
VariantResultAnyTag(v, idx, tag, fields) ==
    [value |-> [objective_type |-> tag] @@ fields.value,
     errs  |-> fields.errs]

\* the outcome of one variant: its tag field and its own fields, with the
\* error of a tag that is not the variant's Literal first
VariantResult(v, idx, tag, fields) ==
    [value |-> [objective_type |-> tag] @@ fields.value,
     errs  |-> (IF tag /= v
                THEN <<SchemaError("objectives." \o VariantName(v) \o ".objective_type",
                                   idx, tag)>>
                ELSE <<>>)
               \o fields.errs]

\* One variant tried on a raw record: the tag must equal the variant's
\* Literal (which is also its default), and every field must validate.
DecodeVariant(v, raw, idx) ==
    VariantResult(v, idx, Get(raw, "objective_type", v), DecodeVariantFields(v, raw, idx))

\* the outcome of the union, try[k] being the outcome of its k-th variant:
\* the first variant that accepted the record, else the errors of all
UnionResult(try) ==
    IF \E k \in DOMAIN try : try[k].errs = <<>>
    THEN [value |-> try[CHOOSE k \in DOMAIN try :
                           /\ try[k].errs = <<>>
                           /\ \A j \in DOMAIN try : try[j].errs = <<>> => k <= j].value,
          errs  |-> <<>>]
    ELSE [value |-> [objective_type |-> None],
          errs  |-> Concat([k \in DOMAIN try |-> try[k].errs])]

\* The union: the record decodes as the variant that accepts it; when none
\* does, the errors of every variant tried are reported.
DecodeObjective(raw, idx) ==
    UnionResult([k \in 1..Len(AnyObjective) |-> DecodeVariant(AnyObjective[k], raw, idx)])

(***************************************************************************)
(* Mission.model_validate: the collections decode item by item; a Mission  *)
(* is produced only when no field of any item fails.                       *)
(***************************************************************************)
\* the model a list field of the given path holds
DecodeItem(path, raw, idx) ==
    CASE path = "objectives" -> DecodeObjective(raw, idx)
      [] path = "actors" -> DecodeActor(raw, idx)
      [] path = "cars" -> DecodeCar(raw, idx)
      [] path = "pickups" -> DecodePickup(raw, idx)
      [] path = "objects" -> DecodeObject(raw, idx)
      [] OTHER -> DecodeRoute(raw, path, idx)

\* PathsCollection(): three empty lists
NoPaths == [routes |-> <<>>, movements |-> <<>>, displacements |-> <<>>]

\* a variant of ListResult that stops at the first item that fails
ListResultFirstFailure(each) ==
    [value |-> [i \in DOMAIN each |-> each[i].value],
     errs  |-> IF \E i \in DOMAIN each : each[i].errs /= <<>>
               THEN each[CHOOSE i \in DOMAIN each :
                            /\ each[i].errs /= <<>>
                            /\ \A j \in DOMAIN each : each[j].errs /= <<>> => i <= j].errs
               ELSE <<>>]

\* the outcome of a list field, each[i] being the outcome of its i-th item
ListResult(each) ==
    [value |-> [i \in DOMAIN each |-> each[i].value],
     errs  |-> Concat([i \in DOMAIN each |-> each[i].errs])]

\* a List[...] field: every item is decoded, every error is kept
DecodeList(raw, path, key) ==
    ListResult([i \in 1..Len(Get(raw, key, <<>>)) |->
                   DecodeItem(path, Get(raw, key, <<>>)[i], i - 1)])

PathsResult(routes, movements, displacements) ==
    [value |-> [routes |-> routes.value, movements |-> movements.value,
                displacements |-> displacements.value],
     errs  |-> routes.errs \o movements.errs \o displacements.errs]

DecodePathsCollection(raw) ==
    PathsResult(DecodeList(raw, "paths.routes", "routes"),
                DecodeList(raw, "paths.movements", "movements"),
                DecodeList(raw, "paths.displacements", "displacements"))

\* the Mission of the decoded fields, or their errors in field order
MissionResult(objectives, actors, cars, pickups, objects, paths) ==
    [value |-> [objectives |-> objectives.value, actors |-> actors.value,
                cars |-> cars.value, pickups |-> pickups.value,
                objects |-> objects.value, paths |-> paths.value],
     errs  |-> objectives.errs \o actors.errs \o cars.errs \o pickups.errs
               \o objects.errs \o paths.errs]

DecodeMission(raw) ==
    MissionResult(DecodeList(raw, "objectives", "objectives"),
                  DecodeList(raw, "actors", "actors"),
                  DecodeList(raw, "cars", "cars"),
                  DecodeList(raw, "pickups", "pickups"),
                  DecodeList(raw, "objects", "objects"),
                  DecodePathsCollection(Get(raw, "paths", NoPaths)))

(***************************************************************************)
(* validate_entity_limits.                                                 *)
(***************************************************************************)
\* the limits dict, in insertion order
\* a variant of limits with the maximum of 50 objects of the Mission docstring
limits_of_docstring ==
    << [entity_type |-> "objectives", max_count |-> 100],
       [entity_type |-> "actors",     max_count |-> 100],
       [entity_type |-> "cars",       max_count |-> 50],
       [entity_type |-> "pickups",    max_count |-> 50],
       [entity_type |-> "objects",    max_count |-> 50] >>

limits ==
    << [entity_type |-> "objectives", max_count |-> 100],
       [entity_type |-> "actors",     max_count |-> 100],
       [entity_type |-> "cars",       max_count |-> 50],
       [entity_type |-> "pickups",    max_count |-> 50],
       [entity_type |-> "objects",    max_count |-> 100] >>

\* str.capitalize() on the entity types
capitalize(s) ==
    CASE s = "objectives" -> "Objectives" [] s = "actors" -> "Actors"
      [] s = "cars" -> "Cars"             [] s = "pickups" -> "Pickups"
      [] s = "objects" -> "Objects"

\* a variant of OverNinetyPercent that stays silent at the maximum itself
OverNinetyPercentBelowMax(count, max_count) ==
    10 * count > 9 * max_count /\ count < max_count

\* a variant of OverNinetyPercent that warns from 90% on (>= for >)
AtLeastNinetyPercent(count, max_count) == 10 * count >= 9 * max_count

\* count > max_count * 0.9.  The product is a float: 100 * 0.9 = 90.0 and
\* 50 * 0.9 = 45.0 exactly, 399 * 0.9 = 359.1; against an integer count the
\* comparison is 10 * count > 9 * max_count.
OverNinetyPercent(count, max_count) == 10 * count > 9 * max_count

\* a variant of limit_step whose error fires from the maximum on (>= for >)
limit_step_from_max(m, r, entity_type, max_count) ==
    LET count == Len(m[entity_type])
        r1 == IF count >= max_count
              THEN add_error(r, Msg("Too many", entity_type, count, max_count))
              ELSE IF OverNinetyPercent(count, max_count)
                   THEN add_warning(r, Msg("Approaching limit for", entity_type,
                                           count, max_count))
                   ELSE r
    IN IF count > 0
       THEN add_info(r1, Msg("Count", capitalize(entity_type), count, max_count))
       ELSE r1

\* a variant of limit_step that reports the count only when no error was
\* added (the info line moved into the else branch)
limit_step_info_unless_error(m, r, entity_type, max_count) ==
    LET count == Len(m[entity_type])
    IN IF count > max_count
       THEN add_error(r, Msg("Too many", entity_type, count, max_count))
       ELSE IF count > 0
            THEN add_info(r, Msg("Count", capitalize(entity_type), count, max_count))
            ELSE r

\* a variant of limit_step whose warning test is an 'if' of its own ('if'
\* for 'elif')
limit_step_warning_unchained(m, r, entity_type, max_count) ==
    LET count == Len(m[entity_type])
        r1 == IF count > max_count
              THEN add_error(r, Msg("Too many", entity_type, count, max_count))
              ELSE r
        r2 == IF OverNinetyPercent(count, max_count)
              THEN add_warning(r1, Msg("Approaching limit for", entity_type,
                                       count, max_count))
              ELSE r1
    IN IF count > 0
       THEN add_info(r2, Msg("Count", capitalize(entity_type), count, max_count))
       ELSE r2

\* one iteration of the loop over limits
limit_step(m, r, entity_type, max_count) ==
    LET count == Len(m[entity_type])
        r1 == IF count > max_count
              THEN add_error(r, Msg("Too many", entity_type, count, max_count))
              ELSE IF OverNinetyPercent(count, max_count)
                   THEN add_warning(r, Msg("Approaching limit for", entity_type,
                                           count, max_count))
                   ELSE r
    IN IF count > 0
       THEN add_info(r1, Msg("Count", capitalize(entity_type), count, max_count))
       ELSE r1

RECURSIVE limits_loop(_, _, _)
limits_loop(m, r, i) ==
    IF i > Len(limits) THEN r
    ELSE limits_loop(m, limit_step(m, r, limits[i].entity_type, limits[i].max_count),
                     i + 1)

validate_entity_limits(m, r) == limits_loop(m, r, 1)

(***************************************************************************)
(* validate_route_points.                                                  *)
(***************************************************************************)
max_points == 399

RECURSIVE SumPoints(_)
\* total_points += len(route.points), over one route list
SumPoints(routes) ==
    IF routes = <<>> THEN 0 ELSE Len(Head(routes).points) + SumPoints(Tail(routes))

\* a variant of total_points that leaves the displacements out
total_points_without_displacements(m) ==
    SumPoints(m.paths.routes) + SumPoints(m.paths.movements)

total_points(m) ==
    SumPoints(m.paths.routes) + SumPoints(m.paths.movements)
        + SumPoints(m.paths.displacements)

validate_route_points(m, r) ==
    LET total == total_points(m)
        r1 == IF total > max_points
              THEN add_error(r, Msg("Too many total route points", "routes",
                                    total, max_points))
              ELSE IF OverNinetyPercent(total, max_points)
                   THEN add_warning(r, Msg("Approaching route point limit", "routes",
                                           total, max_points))
                   ELSE r
    IN IF total > 0
       THEN add_info(r1, Msg("Total route points", "routes", total, max_points))
       ELSE r1

(***************************************************************************)
(* validate_references.  The pass works on st = [result, raised]: raised   *)
(* names the exception that left the function, "" while none has.          *)
(***************************************************************************)
\* {i for i in range(len(xs))}
Ordinals(xs) == 0..(Len(xs) - 1)

\* {r.id for r in routes}
Ids(routes) == {routes[i].id : i \in 1..Len(routes)}

Raise(st, exception) == [st EXCEPT !.raised = exception]

\* the body of the loop over mission.actors
check_actor(m, st, actor, idx) ==
    IF "animation_info" \notin DOMAIN actor
    THEN Raise(st, "AttributeError")
    ELSE IF actor.animation_info = <<>>
    THEN Raise(st, "AttributeError")
    ELSE LET route == actor.animation_info[1].route
         IN IF route /= None /\ route >= 0
               /\ route \notin Ids(m.paths.routes) /\ route \notin Ordinals(m.cars)
            THEN [st EXCEPT !.result = add_error(@, Msg("Invalid route", "Actor", idx, route))]
            ELSE st

\* the body of the loop over mission.objects
check_object(m, st, obj, idx) ==
    IF obj.route_id = None THEN st
    ELSE IF obj.behaviour = 1 /\ obj.route_id >= 0
            /\ obj.route_id \notin Ids(m.paths.displacements)
    THEN [st EXCEPT !.result =
              add_error(@, Msg("Invalid displacement_id", "Object", idx, obj.route_id))]
    ELSE IF obj.behaviour = None
    THEN Raise(st, "TypeError")
    ELSE IF obj.behaviour > 1 /\ obj.route_id >= 0
            /\ obj.route_id \notin Ids(m.paths.movements)
    THEN [st EXCEPT !.result =
              add_error(@, Msg("Invalid movement_id", "Object", idx, obj.route_id))]
    ELSE st

\* one branch of the objective chain: the id is looked up with -1 as its
\* default and checked against the valid ids
check_id(st, obj_dict, idx, key, valid) ==
    LET id == Get(obj_dict, key, -1)
    IN IF id >= 0 /\ id \notin valid
       THEN [st EXCEPT !.result = add_error(@, Msg("Invalid " \o key, "Objective", idx, id))]
       ELSE st

\* a variant of check_objective whose car branch is taken on the tags of the
\* objectives that have a car_id (1 and 9)
check_objective_car_tags(m, st, obj_dict, idx) ==
    LET obj_type == Get(obj_dict, "objective_type", None)
    IN IF obj_type \in {1, 9}
       THEN check_id(st, obj_dict, idx, "car_id", Ordinals(m.cars))
       ELSE st

\* the body of the loop over mission.objectives; obj_dict is model_dump()
check_objective(m, st, obj_dict, idx) ==
    LET obj_type == Get(obj_dict, "objective_type", None)
    IN IF obj_type \in {1, 2, 3}
       THEN check_id(st, obj_dict, idx, "actor_id", Ordinals(m.actors))
       ELSE IF obj_type \in {4, 5, 6, 7}
       THEN check_id(st, obj_dict, idx, "car_id", Ordinals(m.cars))
       ELSE IF obj_type = 10
       THEN check_id(st, obj_dict, idx, "pickup_id", Ordinals(m.pickups))
       ELSE IF obj_type = 24
       THEN check_id(st, obj_dict, idx, "object_id", Ordinals(m.objects))
       ELSE IF obj_type = 11
       THEN check_id(st, obj_dict, idx, "movement_id", Ids(m.paths.movements))
       ELSE st

RECURSIVE actors_loop(_, _, _)
\* for idx, actor in enumerate(mission.actors) -- left when the body raises
actors_loop(m, st, i) ==
    IF i > Len(m.actors) \/ st.raised /= "" THEN st
    ELSE actors_loop(m, check_actor(m, st, m.actors[i], i - 1), i + 1)

RECURSIVE objects_loop(_, _, _)
\* for idx, obj in enumerate(mission.objects)
objects_loop(m, st, i) ==
    IF i > Len(m.objects) \/ st.raised /= "" THEN st
    ELSE objects_loop(m, check_object(m, st, m.objects[i], i - 1), i + 1)

RECURSIVE objectives_loop(_, _, _)
\* for idx, objective in enumerate(mission.objectives)
objectives_loop(m, st, i) ==
    IF i > Len(m.objectives) \/ st.raised /= "" THEN st
    ELSE objectives_loop(m, check_objective(m, st, m.objectives[i], i - 1), i + 1)

validate_references(m, r) ==
    objectives_loop(m,
        objects_loop(m,
            actors_loop(m, [result |-> r, raised |-> ""], 1), 1), 1)

(***************************************************************************)
(* The documents explored.  Three families: collection sizes around the    *)
(* thresholds of the limits, route lengths around the thresholds of the    *)
(* point budget, and small documents whose entities carry references.      *)
(***************************************************************************)
RawActor == [skin |-> 0]
RawCar == [health |-> 1000]
RawPickup == [ammo |-> 0]
RawObject == [interior |-> 0]
RawObjective == [objective_type |-> 8]
RawRoutePoint == [position_x |-> 0]
RawRoute(id, n) == [id |-> id, points |-> Rep(n, RawRoutePoint)]

EmptyDoc ==
    [objectives |-> <<>>, actors |-> <<>>, cars |-> <<>>, pickups |-> <<>>,
     objects |-> <<>>, paths |-> NoPaths]

\* the sizes within Near of 0, of 90% of max and of max
Sizes(max) ==
    {n \in 0..(max + Near) :
        \/ n <= Near
        \/ n > (9 * max) \div 10 - Near /\ n <= (9 * max) \div 10 + Near
        \/ n > max - Near}

RawEntity(entity_type) ==
    CASE entity_type = "objectives" -> RawObjective
      [] entity_type = "actors" -> RawActor
      [] entity_type = "cars" -> RawCar
      [] entity_type = "pickups" -> RawPickup
      [] entity_type = "objects" -> RawObject

LimitDocs ==
    {[EmptyDoc EXCEPT ![limits[i].entity_type] = Rep(n, RawEntity(limits[i].entity_type))] :
        <<i, n>> \in {p \in (1..Len(limits)) \X (0..(100 + Near)) :
                         p[2] \in Sizes(limits[p[1]].max_count)}}

RouteLists == {"routes", "movements", "displacements"}

\* the route lengths c for which k routes of c points are within Near points
\* (per route) of 0, of 90% of the budget or of the budget
Base(k) ==
    {c \in 0..(max_points + Near) :
        \E t \in {0, (9 * max_points) \div 10, max_points} :
            c >= t \div k - Near /\ c <= t \div k + Near}

\* the routes of rs that list[i] places in the list named l, in order
InList(rs, list, l) ==
    LET keep == [i \in 1..Len(rs) |-> IF list[i] = l THEN <<rs[i]>> ELSE <<>>]
    IN Concat(keep)

\* k routes of c points, the j-th (if j > 0) one point longer, route i in
\* the list list[i]
PointDoc(k, list, c, j) ==
    LET rs == [i \in 1..k |-> RawRoute(i - 1, IF i = j THEN c + 1 ELSE c)]
    IN [EmptyDoc EXCEPT !.paths =
            [routes |-> InList(rs, list, "routes"),
             movements |-> InList(rs, list, "movements"),
             displacements |-> InList(rs, list, "displacements")]]

PointDocs ==
    UNION {{PointDoc(k, list, c, j) : list \in [1..k -> RouteLists], c \in Base(k), j \in 0..k} :
              k \in 1..MaxRoutes}

RefValues == -1..(MaxId + 1)

RECURSIVE Ascending(_)
\* the elements of a set of integers, in ascending order
Ascending(S) ==
    IF S = {} THEN <<>>
    ELSE LET least == CHOOSE x \in S : \A y \in S : x <= y
         IN <<least>> \o Ascending(S \ {least})

\* a route list holding one route of one point for each id of S
RoutesWithIds(S) == [i \in 1..Cardinality(S) |-> RawRoute(Ascending(S)[i], 1)]

\* a static object or none, then an object with the given behaviour and route
ObjectDocs ==
    {[EmptyDoc EXCEPT
         !.actors = Rep(na, RawActor),
         !.objects = Rep(before, RawObject)
                        \o <<[interior |-> 0, behaviour |-> b, route_id |-> rid]>>,
         !.paths = [routes |-> <<>>, movements |-> RoutesWithIds(M),
                    displacements |-> RoutesWithIds(D)]] :
        na \in 0..1, before \in 0..1, b \in {None} \cup (0..4),
        rid \in {None} \cup RefValues,
        M \in SUBSET (0..MaxId), D \in SUBSET (0..MaxId)}

\* the animation_info keys an actor record may carry
RawActors ==
    {RawActor} \cup {[skin |-> 0, animation_info |-> [route |-> v]] :
                        v \in {None} \cup RefValues}

ActorDocs ==
    {[EmptyDoc EXCEPT
         !.actors = Rep(before, RawActor) \o <<a>>,
         !.cars = Rep(nc, RawCar),
         !.paths = [routes |-> RoutesWithIds(R), movements |-> <<>>,
                    displacements |-> <<>>]] :
        before \in 0..1, a \in RawActors, nc \in 0..1, R \in SUBSET (0..MaxId)}

\* objective records: every variant that has a reference-like field, and
\* every tag validate_references branches on carrying the key it looks up
RawObjectives ==
    {[objective_type |-> 6, actor_idx |-> v] : v \in RefValues}
    \cup {[objective_type |-> t, actor_id |-> v] : t \in {1, 2, 3}, v \in RefValues}
    \cup {[objective_type |-> t, car_id |-> v] : t \in {4, 5, 6, 7}, v \in RefValues}
    \cup {[objective_type |-> 10, pickup_id |-> v] : v \in RefValues}
    \cup {[objective_type |-> 24, object_id |-> v] : v \in RefValues}
    \cup {[objective_type |-> 11, movement_id |-> v] : v \in RefValues}
    \cup {[objective_type |-> 5, animation_info |-> <<[route |-> v]>>] : v \in RefValues}
    \cup {[objective_type |-> 1, car_id |-> 526], [objective_type |-> 9, car_id |-> 400],
          [objective_type |-> 3, object_id |-> 1240],
          [objective_type |-> 19, object_id |-> 1221, behaviour |-> 2, route_id |-> 1]}

ObjectiveDocs ==
    {[EmptyDoc EXCEPT
         !.objectives = Rep(before, RawObjective) \o <<o>>,
         !.actors = Rep(na, RawActor),
         !.cars = Rep(nc, RawCar),
         !.paths = [routes |-> <<>>, movements |-> RoutesWithIds(M),
                    displacements |-> <<>>]] :
        before \in 0..1, o \in RawObjectives, na \in 0..1, nc \in 0..1,
        M \in SUBSET (0..MaxId)}

\* one objective of every tag around 1..22 and of a tag far outside, bare
\* or with the car_id ObjectivePlayerTeleportCar requires, after a valid
\* objective or none
TagDocs ==
    {[EmptyDoc EXCEPT !.objectives = Rep(before, RawObjective) \o <<o>>] :
        before \in 0..1,
        o \in {[objective_type |-> t] : t \in (-1..23) \cup {99}}
               \cup {[objective_type |-> t, car_id |-> 400] : t \in (-1..23) \cup {99}}}

\* objective records that decode (a countdown, a cutscene, a record with no
\* tag) and that do not (unknown tags, a field out of range, a required
\* field missing)
FewObjectives ==
    {[objective_type |-> 8], [objective_type |-> 6, actor_idx |-> 0],
     [car_id |-> 526], [actor_idx |-> 0],
     [objective_type |-> 4], [objective_type |-> 99],
     [objective_type |-> 6, actor_idx |-> 100], [objective_type |-> 9]}

\* the sequences of 1..n elements of S
SeqsUpTo(S, n) == UNION {[1..k -> S] : k \in 1..n}

\* objective sequences, with an object that decodes or does not
ObjectiveSeqDocs ==
    {[EmptyDoc EXCEPT !.objectives = os, !.objects = objs] :
        os \in SeqsUpTo(FewObjectives, MaxObjectives),
        objs \in {<<>>, <<[interior |-> 8]>>}}

\* a collection one over its maximum, or a route one point over the
\* budget, or neither, together with an object that names a route
MixedDocs ==
    {[[EmptyDoc EXCEPT ![limits[i].entity_type] =
                           Rep(limits[i].max_count + over, RawEntity(limits[i].entity_type))]
         EXCEPT
         !.objects = @ \o <<[interior |-> 0, behaviour |-> b, route_id |-> 1]>>,
         !.paths = [routes |-> IF points = 0 THEN <<>> ELSE <<RawRoute(0, points)>>,
                    movements |-> RoutesWithIds(M),
                    displacements |-> RoutesWithIds(D)]] :
        i \in 1..Len(limits), over \in 0..1, b \in 1..2,
        points \in {0, max_points},
        M \in {{}, {1}}, D \in {{}, {1}}}

\* the values at and within Near outside the ends of the range lo..hi
Around(lo, hi) == ((lo - Near)..lo) \cup (hi..(hi + Near))

\* an actor or an objective one of whose enumeration fields is at or just
\* outside an end of the documented range of its enumeration
EnumDocs ==
    {[EmptyDoc EXCEPT !.actors = <<a>>] :
        a \in {[skin |-> 0, weapon |-> w] : w \in Around(0, 48)}
               \cup {[skin |-> 0, gang |-> g] : g \in Around(4, 26)}}
    \cup
    {[EmptyDoc EXCEPT !.objectives = <<o>>] :
        o \in {[objective_type |-> 2, radar_marker |-> r] : r \in Around(-1, 4)}
               \cup {[objective_type |-> 2, shape |-> c] : c \in Around(0, 5)}
               \cup {[objective_type |-> 11, weather |-> w] : w \in Around(0, 22)}
               \cup {[objective_type |-> 13, mode |-> m] : m \in Around(0, 4)}
               \cup {[objective_type |-> t, car_id |-> c] :
                         t \in {1, 9}, c \in Around(400, 611)}
               \cup {[objective_type |-> 19, object_id |-> o2] :
                         o2 \in Around(-467, -467)}}

\* cutscene behaviour composites: camera modes alone, camera modes with
\* flags of bits 8..11, a low byte that is no camera mode, bits above bit
\* 11, and a negative value
CutsceneBehaviours ==
    {-1, 0, 3, 8, 9, 255, 256, 258, 1536, 2048, 3848, 4095, 4096, 4097, 6400, 65536}

CutsceneDocs ==
    {[EmptyDoc EXCEPT !.objectives = <<[objective_type |-> 6, behaviour |-> x]>>] :
        x \in CutsceneBehaviours}

\* object counts around the 50 of the Mission docstring
FiftyObjectsDocs ==
    {[EmptyDoc EXCEPT !.objects = Rep(n, RawObject)] : n \in (50 - Near)..(50 + Near)}

\* two routes of one list with the same id, alone or with an object that
\* refers to that id
DuplicateIdDocs ==
    {[EmptyDoc EXCEPT !.paths[l] = <<RawRoute(id, 1), RawRoute(id, 2)>>,
                      !.objects = objs] :
        l \in RouteLists, id \in 0..MaxId,
        objs \in {<<>>} \cup {<<[interior |-> 0, behaviour |-> b, route_id |-> 1]>> :
                                  b \in 1..2}}

\* documents with findings in several passes: cars and pickups over their
\* maximum, objectives over theirs or absent, a route within or over the
\* point budget, two objects whose route is in no list
OrderDocs ==
    {[EmptyDoc EXCEPT
         !.objectives = Rep(n, RawObjective),
         !.cars = Rep(51, RawCar),
         !.pickups = Rep(51, RawPickup),
         !.objects = <<[interior |-> 0, behaviour |-> b1, route_id |-> 1],
                       [interior |-> 0, behaviour |-> b2, route_id |-> 1]>>,
         !.paths.routes = <<RawRoute(0, points)>>] :
        n \in {0, 101}, b1 \in 1..2, b2 \in 1..2,
        points \in {max_points - Near, max_points + 1}}

\* one objective of each variant, written with every key the reference pass
\* looks up, in a document with no actor, car, pickup, object or movement
LookedUpDocs ==
    {[EmptyDoc EXCEPT !.objectives =
          <<[objective_type |-> AnyObjective[k], actor_id |-> MaxId, car_id |-> 400,
             pickup_id |-> MaxId, object_id |-> MaxId, movement_id |-> MaxId]>>] :
        k \in 1..Len(AnyObjective)}

Docs ==
    LimitDocs \cup PointDocs \cup ObjectDocs \cup ActorDocs \cup ObjectiveDocs
        \cup TagDocs \cup ObjectiveSeqDocs \cup MixedDocs \cup EnumDocs
        \cup CutsceneDocs \cup FiftyObjectsDocs \cup DuplicateIdDocs \cup OrderDocs
        \cup LookedUpDocs

(***************************************************************************)
(* validate_mission_file.  file is how the path loads: "ok" (json.load     *)
(* returns doc), "missing" (exists() is false), "invalid_json" (json.load  *)
(* raises JSONDecodeError) or "unreadable" (open or json.load raises       *)
(* another exception).  pc is the position in the function: "load", then   *)
(* "decode" (Mission.model_validate), then the three passes, then          *)
(* "returned" (the result was returned) or "raised" (an exception left the *)
(* function, named by exc, and no result was returned).  out and status    *)
(* are what main printed and the status it exited with, None while it has  *)
(* not.                                                                    *)
(***************************************************************************)
Files == {"ok", "missing", "invalid_json", "unreadable"}

\* what a path that does not load was meant to hold: nothing, or 51 cars
UnloadedDocs == {EmptyDoc, [EmptyDoc EXCEPT !.cars = Rep(51, RawCar)]}

\* no bitfield codec is at work
NoCodec == [op |-> "none"]

Init ==
    /\ file \in Files
    /\ doc \in IF file = "ok" THEN Docs ELSE UnloadedDocs
    /\ mission = <<>>
    /\ result = NewResult
    /\ pc = "load"
    /\ exc = ""
    /\ out = <<>>
    /\ status = None
    /\ codec = NoCodec

\* the error of a path that does not load
LoadError(f) ==
    CASE f = "missing" -> Msg("File not found", "file", 0, 0)
      [] f = "invalid_json" -> Msg("Invalid JSON", "file", 0, 0)
      [] f = "unreadable" -> Msg("Failed to read file", "file", 0, 0)

\* a variant of Load that adds the error and goes on to decode (the
\* 'return result' lines left out)
LoadWithoutReturn ==
    /\ pc = "load"
    /\ result' = IF file = "ok" THEN result ELSE add_error(result, LoadError(file))
    /\ pc' = "decode"
    /\ UNCHANGED <<doc, file, codec, mission, exc, out, status>>

\* the existence check and json.load, each failure returning the result
\* with one error
Load ==
    /\ pc = "load"
    /\ IF file = "ok"
       THEN /\ pc' = "decode"
            /\ UNCHANGED result
       ELSE /\ result' = add_error(result, LoadError(file))
            /\ pc' = "returned"
    /\ UNCHANGED <<doc, file, codec, mission, exc, out, status>>

RECURSIVE add_errors(_, _)
\* for error in e.errors(): result.add_error(...)
add_errors(r, errs) ==
    IF errs = <<>> THEN r ELSE add_errors(add_error(r, Head(errs)), Tail(errs))

\* a variant of Decode that keeps what did decode when some field failed
DecodeKeepingTheRest ==
    /\ pc = "decode"
    /\ \E d \in {DecodeMission(doc)} :
          /\ mission' = <<d.value>>
          /\ IF d.errs = <<>>
             THEN /\ pc' = "limits"
                  /\ UNCHANGED result
             ELSE /\ result' = add_errors(add_error(result,
                                   Msg("Schema validation failed:", "", 0, 0)), d.errs)
                  /\ pc' = "returned"
    /\ UNCHANGED <<doc, file, codec, exc, out, status>>

\* mission = Mission.model_validate(data), and the except branch
Decode ==
    /\ pc = "decode"
    /\ \E d \in {DecodeMission(doc)} :
          IF d.errs = <<>>
          THEN /\ mission' = <<d.value>>
               /\ pc' = "limits"
               /\ UNCHANGED result
          ELSE /\ result' = add_errors(add_error(result,
                                Msg("Schema validation failed:", "", 0, 0)), d.errs)
               /\ pc' = "returned"
               /\ UNCHANGED mission
    /\ UNCHANGED <<doc, file, codec, exc, out, status>>

ValidateEntityLimits ==
    /\ pc = "limits"
    /\ result' = validate_entity_limits(mission[1], result)
    /\ pc' = "points"
    /\ UNCHANGED <<doc, file, codec, mission, exc, out, status>>

ValidateRoutePoints ==
    /\ pc = "points"
    /\ result' = validate_route_points(mission[1], result)
    /\ pc' = "references"
    /\ UNCHANGED <<doc, file, codec, mission, exc, out, status>>

\* a variant of ValidateReferences that consumes the objectives it checks
ValidateReferencesConsuming ==
    /\ pc = "references"
    /\ LET st == validate_references(mission[1], result)
       IN /\ result' = st.result
          /\ exc' = st.raised
          /\ pc' = IF st.raised = "" THEN "returned" ELSE "raised"
    /\ mission' = <<[mission[1] EXCEPT !.objectives = <<>>]>>
    /\ UNCHANGED <<doc, file, codec, out, status>>

\* validate_references(mission, result); return result
ValidateReferences ==
    /\ pc = "references"
    /\ LET st == validate_references(mission[1], result)
       IN /\ result' = st.result
          /\ exc' = st.raised
          /\ pc' = IF st.raised = "" THEN "returned" ELSE "raised"
    /\ UNCHANGED <<doc, file, codec, mission, out, status>>

\* main: result.print_results(), once validate_mission_file has returned.
\* out is <<>> until then, and <<lines>> after.
PrintResults ==
    /\ pc = "returned"
    /\ out = <<>>
    /\ out' = <<print_results(result)>>
    /\ UNCHANGED <<doc, file, codec, mission, result, pc, exc, status>>

\* main: sys.exit(0) if result.is_valid() else sys.exit(1)
Exit ==
    /\ out /= <<>>
    /\ status = None
    /\ status' = IF is_valid(result) THEN 0 ELSE 1
    /\ UNCHANGED <<doc, file, codec, mission, result, pc, exc, out>>

Next ==
    \/ Load
    \/ Decode
    \/ ValidateEntityLimits
    \/ ValidateRoutePoints
    \/ ValidateReferences
    \/ PrintResults
    \/ Exit

Spec == Init /\ [][Next]_vars

(***************************************************************************)
(* The bitfield codecs between the packed integers of the legacy format    *)
(* and the fields of the document model.  codec holds one conversion in    *)
(* progress: op names the composite and the direction taken first, at the  *)
(* position ("start", "decoded", "encoded", "done"), x and c the packed    *)
(* integer and the components given, packed and parts the current ones.    *)
(***************************************************************************)
\* a variant of interior_encode that shifts the behaviour by 3 bits
interior_encode_shift_three(c) == c.interior + c.behaviour * 8

\* value = interior_id + (behaviour_id << 6)
interior_encode(c) == c.interior + c.behaviour * 64

\* the low 3 bits, and the behaviour id shifted back
interior_decode(x) == [interior |-> x % 8, behaviour |-> x \div 64]

\* the components Object takes: interior 0..7, behaviour 0..4
InteriorParts == [interior : 0..7, behaviour : 0..4]

\* the bits of the behaviour flags that have a name, by the name of the
\* boolean of ObjectiveActor
ActorFlags ==
    [hold_position |-> 2, attack_direct |-> 4, follow |-> 8, headshot_immune |-> 16,
     kill_whole_gang |-> 32, health_bar |-> 64, enemy2 |-> 128]

\* one boolean per named bit
flags_decode(x) == [f \in DOMAIN ActorFlags |-> (x \div ActorFlags[f]) % 2 = 1]

\* the bitwise OR of the set flags
flags_encode(c) ==
    LET bit(f) == IF c[f] THEN ActorFlags[f] ELSE 0
    IN bit("hold_position") + bit("attack_direct") + bit("follow")
         + bit("headshot_immune") + bit("kill_whole_gang") + bit("health_bar")
         + bit("enemy2")

CodecInit ==
    /\ file = "ok"
    /\ doc = EmptyDoc
    /\ mission = <<>>
    /\ result = NewResult
    /\ pc = "codec"
    /\ exc = ""
    /\ out = <<>>
    /\ status = None
    /\ codec \in
          {[op |-> "interior_decode_first", at |-> "start", x |-> x, c |-> interior_decode(0),
            packed |-> x, parts |-> interior_decode(0)] : x \in 0..MaxPacked}
          \cup
          {[op |-> "interior_encode_first", at |-> "start", x |-> 0, c |-> c,
            packed |-> 0, parts |-> c] : c \in InteriorParts}
          \cup
          {[op |-> "flags_decode_first", at |-> "start", x |-> x, c |-> flags_decode(0),
            packed |-> x, parts |-> flags_decode(0)] : x \in 0..MaxPacked}

InteriorDecode ==
    /\ \/ codec.op = "interior_decode_first" /\ codec.at = "start"
       \/ codec.op = "interior_encode_first" /\ codec.at = "encoded"
    /\ codec' = [codec EXCEPT !.parts = interior_decode(codec.packed),
                              !.at = IF codec.at = "start" THEN "decoded" ELSE "done"]
    /\ UNCHANGED <<doc, file, mission, result, pc, exc, out, status>>

InteriorEncode ==
    /\ \/ codec.op = "interior_encode_first" /\ codec.at = "start"
       \/ codec.op = "interior_decode_first" /\ codec.at = "decoded"
    /\ codec' = [codec EXCEPT !.packed = interior_encode(codec.parts),
                              !.at = IF codec.at = "start" THEN "encoded" ELSE "done"]
    /\ UNCHANGED <<doc, file, mission, result, pc, exc, out, status>>

FlagsDecode ==
    /\ codec.op = "flags_decode_first" /\ codec.at = "start"
    /\ codec' = [codec EXCEPT !.parts = flags_decode(codec.packed), !.at = "decoded"]
    /\ UNCHANGED <<doc, file, mission, result, pc, exc, out, status>>

FlagsEncode ==
    /\ codec.op = "flags_decode_first" /\ codec.at = "decoded"
    /\ codec' = [codec EXCEPT !.packed = flags_encode(codec.parts), !.at = "done"]
    /\ UNCHANGED <<doc, file, mission, result, pc, exc, out, status>>

CodecNext ==
    \/ InteriorDecode
    \/ InteriorEncode
    \/ FlagsDecode
    \/ FlagsEncode

CodecSpec == CodecInit /\ [][CodecNext]_vars

(***************************************************************************)
(* Vocabulary of the properties.                                           *)
(***************************************************************************)
\* a Mission was decoded and the named pass has run on it
Decoded == mission /= <<>>
LimitsRan == Decoded /\ pc \in {"points", "references", "returned", "raised"}
PointsRan == Decoded /\ pc \in {"references", "returned", "raised"}
\* validate_mission_file is over: it returned a result or an exception left it
Over == pc \in {"returned", "raised"}

\* the number of messages of msgs with the given text, subject and numbers
Count(msgs, text, what, n, m) ==
    Cardinality({i \in 1..Len(msgs) :
                    /\ msgs[i].text = text /\ msgs[i].what = what
                    /\ msgs[i].n = n /\ msgs[i].m = m})

\* the limits as documented: collection, maximum
DocumentedLimits ==
    {<<"objectives", 100>>, <<"actors", 100>>, <<"cars", 50>>, <<"pickups", 50>>,
     <<"objects", 100>>}

\* the point count of the mission, taken over all points of all three lists
AllPoints(m) ==
    LET pts(rs) == Concat([i \in 1..Len(rs) |-> rs[i].points])
    IN Len(pts(m.paths.routes) \o pts(m.paths.movements) \o pts(m.paths.displacements))

C2_NoErrorNoWarningAt100 ==
    (LimitsRan /\ Len(mission[1].actors) = 100) =>
        /\ \A i \in 1..Len(result.errors) : result.errors[i].what /= "actors"
        /\ \A i \in 1..Len(result.warnings) : result.warnings[i].what /= "actors"

\* C2 amended: with exactly 100 actors the actor-count check adds no error,
\* and adds the warning "Approaching limit for actors: 100/100".
C2_NoErrorButWarningAt100 ==
    (LimitsRan /\ Len(mission[1].actors) = 100) =>
        /\ \A i \in 1..Len(result.errors) : result.errors[i].what /= "actors"
        /\ Count(result.warnings, "Approaching limit for", "actors", 100, 100) = 1

\* C2 witness: the actor-count check has run on 100 actors
C2_Witness ==
    /\ LimitsRan
    /\ Len(mission[1].actors) = 100
    /\ Len(result.warnings) = 1

\* the warning of a collection / of the route-point total is in the result
Warned(what, count, max) ==
    Count(result.warnings,
          IF what = "routes" THEN "Approaching route point limit"
                             ELSE "Approaching limit for",
          what, count, max) = 1

\* C3 as stated: a count strictly above 90% of the maximum always gets the
\* warning, for the five collections and for the route-point total.
C3_WarningWheneverOverNinety ==
    /\ LimitsRan =>
          \A l \in DocumentedLimits :
              LET count == Len(mission[1][l[1]])
              IN (10 * count > 9 * l[2]) => Warned(l[1], count, l[2])
    /\ PointsRan =>
          ((10 * AllPoints(mission[1]) > 9 * 399)
              => Warned("routes", AllPoints(mission[1]), 399))

\* C3 amended: the warning is emitted exactly when the count is strictly
\* above 90% of the maximum and not above the maximum.
C3_WarningIffOverNinetyWithinMax ==
    /\ LimitsRan =>
          \A l \in DocumentedLimits :
              LET count == Len(mission[1][l[1]])
              IN Warned(l[1], count, l[2]) <=> (10 * count > 9 * l[2] /\ count <= l[2])
    /\ PointsRan =>
          LET total == AllPoints(mission[1])
          IN Warned("routes", total, 399) <=> (10 * total > 9 * 399 /\ total <= 399)

\* C3 witness: 360 route points, warned about
C3_Witness ==
    /\ PointsRan
    /\ AllPoints(mission[1]) = 360
    /\ Warned("routes", 360, 399)

\* the number of info lines reporting count/max of a collection / the total
InfoLines(what, count, max) ==
    IF what = "routes"
    THEN Count(result.info, "Total route points", what, count, max)
    ELSE Count(result.info, "Count", capitalize(what), count, max)

\* C4 as stated: one info line per collection and one for the route-point
\* total, whatever the count, zero included.
C4_InfoRegardless ==
    /\ LimitsRan =>
          \A l \in DocumentedLimits :
              InfoLines(l[1], Len(mission[1][l[1]]), l[2]) = 1
    /\ PointsRan => InfoLines("routes", AllPoints(mission[1]), 399) = 1

\* C4 amended: one info line reporting count/max when the count is at least
\* 1 (over the maximum included), none when the count is 0.
C4_InfoIffNonEmpty ==
    /\ LimitsRan =>
          \A l \in DocumentedLimits :
              LET count == Len(mission[1][l[1]])
              IN InfoLines(l[1], count, l[2]) = (IF count > 0 THEN 1 ELSE 0)
    /\ PointsRan =>
          LET total == AllPoints(mission[1])
          IN InfoLines("routes", total, 399) = (IF total > 0 THEN 1 ELSE 0)

\* C4 witness: 51 cars, over the maximum, reported by an info line
C4_Witness ==
    /\ LimitsRan
    /\ Len(mission[1].cars) = 51
    /\ InfoLines("cars", 51, 50) = 1

\* C5: once the route-point check has run, the result holds the "Too many
\* total route points" error exactly when the points of all routes of
\* routes, movements and displacements together number more than 399.
C5_RoutePointBudget ==
    PointsRan =>
        LET total == AllPoints(mission[1])
        IN (Count(result.errors, "Too many total route points", "routes", total, 399) = 1)
               <=> (total > 399)

\* C5 witness: one route in each list, 134 + 133 + 133 points with the
\* longer one among the displacements, and the error
C5_Witness ==
    /\ PointsRan
    /\ Len(mission[1].paths.routes) = 1
    /\ Len(mission[1].paths.movements) = 1
    /\ Len(mission[1].paths.displacements) = 1
    /\ Len(mission[1].paths.displacements[1].points) = 134
    /\ AllPoints(mission[1]) = 400
    /\ Count(result.errors, "Too many total route points", "routes", 400, 399) = 1

\* the result validate_mission_file returned holds an error about the
\* entity of the given kind and index carrying the given reference value
Reported(kind, idx, value) ==
    /\ pc = "returned"
    /\ \E i \in 1..Len(result.errors) :
          /\ result.errors[i].what = kind
          /\ result.errors[i].n = idx
          /\ result.errors[i].m = value

\* C6: for every Mission that decode produces, no validation pass raises an
\* exception: validate_mission_file never ends with an exception.
C6_ValidationNeverRaises == Decoded => pc /= "raised"

\* C7: when validation of a decoded Mission is over, every Object with a
\* non-negative route_id and behaviour 1 has an invalid-reference error
\* naming its index and the id exactly when no displacement has that id,
\* and every Object with behaviour 2, 3 or 4 has one exactly when no
\* movement has that id.
C7_ObjectRouteListByBehaviour ==
    (Decoded /\ Over) =>
        \A i \in 1..Len(mission[1].objects) :
            LET obj == mission[1].objects[i]
            IN (obj.route_id /= None /\ obj.route_id >= 0) =>
                  /\ (obj.behaviour = 1) =>
                        (Reported("Object", i - 1, obj.route_id)
                            <=> obj.route_id \notin Ids(mission[1].paths.displacements))
                  /\ (obj.behaviour \in {2, 3, 4}) =>
                        (Reported("Object", i - 1, obj.route_id)
                            <=> obj.route_id \notin Ids(mission[1].paths.movements))

\* the route reference the raw record of an actor carries in its
\* animation_info, None when it carries none
RouteReference(raw_actor) ==
    IF "animation_info" \in DOMAIN raw_actor
    THEN Get(raw_actor.animation_info, "route", None)
    ELSE None

\* C8: when validation of a decoded Mission is over, every Actor whose
\* animation info carries a non-negative route reference has an "Invalid
\* route" error naming its index and the value exactly when the value is
\* neither the id of a route of paths.routes nor a car ordinal, and an
\* Actor without a route reference has no reference error.
C8_ActorRouteResolvesAgainstRoutesOrCars ==
    (Decoded /\ Over) =>
        \A i \in 1..Len(doc.actors) :
            LET route == RouteReference(doc.actors[i])
            IN IF route /= None /\ route >= 0
               THEN Reported("Actor", i - 1, route)
                        <=> (/\ route \notin Ids(mission[1].paths.routes)
                             /\ route \notin Ordinals(mission[1].cars))
               ELSE \A k \in 1..Len(result.errors) :
                        ~(result.errors[k].what = "Actor" /\ result.errors[k].n = i - 1)

\* C9: when validation has returned its result, every cutscene objective
\* whose actor index is not the ordinal of an actor of the Mission has an
\* error naming the objective's sequence index and the value.
C9_ObjectiveReferenceResolves ==
    (Decoded /\ pc = "returned") =>
        \A i \in 1..Len(mission[1].objectives) :
            LET objective == mission[1].objectives[i]
            IN (/\ objective.objective_type = 6
                /\ objective.actor_idx >= 0
                /\ objective.actor_idx \notin Ordinals(mission[1].actors))
                   => Reported("Objective", i - 1, objective.actor_idx)

\* C10: a document holding an Actor whose animation_info.route is negative,
\* or an Object whose route_id is negative, is accepted: it decodes,
\* validation returns its result, and the result holds no invalid-reference
\* error about that entity.
C10_NegativeReferenceAccepted ==
    Over =>
        /\ \A i \in 1..Len(doc.actors) :
              LET route == RouteReference(doc.actors[i])
              IN (route /= None /\ route < 0) =>
                    /\ Decoded
                    /\ pc = "returned"
                    /\ ~Reported("Actor", i - 1, route)
        /\ \A i \in 1..Len(doc.objects) :
              LET route_id == Get(doc.objects[i], "route_id", None)
              IN (route_id /= None /\ route_id < 0) =>
                    /\ Decoded
                    /\ pc = "returned"
                    /\ ~Reported("Object", i - 1, route_id)

(***************************************************************************)
(* Decoding of the objectives and the shape of the returned result.        *)
(***************************************************************************)
\* the tags of the 21 objective kinds: 1..22 without the reserved 4
KnownTags == (1..22) \ {4}

\* the paths of the objective_type errors of the variants
TagPaths ==
    {"objectives." \o VariantName(AnyObjective[k]) \o ".objective_type" :
        k \in 1..Len(AnyObjective)}

\* the paths of all field errors of the variants
ObjectivePaths ==
    {"objectives." \o VariantName(AnyObjective[k]) \o "." \o f :
        k \in 1..Len(AnyObjective),
        f \in {"objective_type", "car_id", "object_id", "behaviour", "route_id",
               "actor_idx", "animation_info.route", "shape", "weather", "mode"}}

\* the positions in the returned errors of the schema errors of the
\* objective of index idx whose path is in paths
SchemaErrorsAt(paths, idx) ==
    {k \in 1..Len(result.errors) :
        /\ result.errors[k].text = "Field error"
        /\ result.errors[k].what \in paths
        /\ result.errors[k].n = idx}

\* Mission.model_validate is over
DecodeOver == file = "ok" /\ pc \notin {"load", "decode"}

\* C11: once decoding is over, an objective record whose objective_type is
\* outside {1,2,3,5,...,22} has made it fail, with an error at the record's
\* index; a record whose objective_type is in that set was turned down for
\* its tag by all variants but one (20 tag errors at its index when the
\* record was rejected, none when it was not), and when a Mission was
\* decoded its objective carries the raw tag.
C11_UnknownTagFailsKnownTagDispatches ==
    DecodeOver =>
        \A i \in 1..Len(doc.objectives) :
            LET raw == doc.objectives[i]
            IN "objective_type" \in DOMAIN raw =>
                  IF raw.objective_type \notin KnownTags
                  THEN /\ ~Decoded
                       /\ pc = "returned"
                       /\ SchemaErrorsAt(TagPaths, i - 1) /= {}
                  ELSE /\ Cardinality(SchemaErrorsAt(TagPaths, i - 1)) \in {0, 20}
                       /\ Decoded =>
                             mission[1].objectives[i].objective_type = raw.objective_type

\* C11 witness: the reserved tag 4 at index 1, rejected with errors at index 1
C11_Witness ==
    /\ pc = "returned"
    /\ ~Decoded
    /\ Len(doc.objectives) = 2
    /\ doc.objectives[2] = [objective_type |-> 4]
    /\ Cardinality(SchemaErrorsAt(TagPaths, 1)) = 21

\* C12: once decoding is over, a document holding an objective record with
\* no objective_type has not been decoded into a Mission, and the result
\* holds an error at that objective's index.
C12_MissingTagFailsDecode ==
    DecodeOver =>
        \A i \in 1..Len(doc.objectives) :
            "objective_type" \notin DOMAIN doc.objectives[i] =>
                /\ ~Decoded
                /\ SchemaErrorsAt(ObjectivePaths, i - 1) /= {}

\* the items of the document that fail a constraint of their own: the list
\* they are in and their position
FailingItems ==
    UNION {{<<l, i>> : i \in {k \in 1..Len(doc[l]) :
                                 DecodeItem(l, doc[l][k], k - 1).errs /= <<>>}} :
              l \in {"objectives", "actors", "cars", "pickups", "objects"}}
    \cup
    UNION {{<<l, i>> : i \in {k \in 1..Len(doc.paths[l]) :
                                 DecodeItem("paths." \o l, doc.paths[l][k], k - 1).errs /= <<>>}} :
              l \in RouteLists}

\* C13: once decoding is over, if some item of the document fails a
\* constraint of its own then no Mission was produced, no pass ran, and the
\* result returned holds at least one error, no info line and no warning,
\* and is not valid.
C13_NoPartialDecode ==
    (DecodeOver /\ FailingItems /= {}) =>
        /\ ~Decoded
        /\ pc = "returned"
        /\ Len(result.errors) >= 1
        /\ result.info = <<>>
        /\ result.warnings = <<>>
        /\ ~is_valid(result)

\* C13 witness: an object that fails after an objective that decodes
C13_Witness ==
    /\ pc = "returned"
    /\ ~Decoded
    /\ doc.objectives = <<[objective_type |-> 8]>>
    /\ doc.objects = <<[interior |-> 8]>>
    /\ Len(result.errors) = 2

\* C14: once decoding is over, the returned errors hold an entry for every
\* objective that fails to decode, whatever precedes it.
C14_ErrorsAccumulate ==
    DecodeOver =>
        \A p \in FailingItems :
            p[1] = "objectives" => SchemaErrorsAt(ObjectivePaths, p[2] - 1) /= {}

\* C14 witness: an unknown tag at index 0, then a cutscene whose actor_idx is
\* out of range at index 1, both reported
C14_Witness ==
    /\ pc = "returned"
    /\ doc.objectives = <<[objective_type |-> 99], [objective_type |-> 6, actor_idx |-> 100]>>
    /\ SchemaErrorsAt(TagPaths, 0) /= {}
    /\ SchemaErrorsAt({"objectives.ObjectiveCutscene.actor_idx"}, 1) /= {}

\* some collection of the Mission is over its documented maximum, or its
\* routes hold more than 399 points
OverSomeLimit(m) ==
    \/ \E l \in DocumentedLimits : Len(m[l[1]]) > l[2]
    \/ AllPoints(m) > 399

\* the result holds the error of every limit and budget the Mission exceeds
LimitErrorsReported ==
    /\ \A l \in DocumentedLimits :
          Len(mission[1][l[1]]) > l[2] =>
              Count(result.errors, "Too many", l[1], Len(mission[1][l[1]]), l[2]) = 1
    /\ AllPoints(mission[1]) > 399 =>
          Count(result.errors, "Too many total route points", "routes",
                AllPoints(mission[1]), 399) = 1

\* the object names a route that the list its behaviour selects does not hold
Unresolved(m, obj) ==
    /\ obj.route_id /= None
    /\ obj.route_id >= 0
    /\ \/ obj.behaviour = 1 /\ obj.route_id \notin Ids(m.paths.displacements)
       \/ obj.behaviour \in {2, 3, 4} /\ obj.route_id \notin Ids(m.paths.movements)

\* C15: when validation of a decoded Mission is over, a Mission that
\* exceeds a population limit or the route-point budget and holds an Object
\* with an unresolved route_id has both the limit error and the
\* invalid-reference error of that Object in the returned result.
C15_PassesDoNotSuppressEachOther ==
    (Decoded /\ Over /\ OverSomeLimit(mission[1])) =>
        \A i \in 1..Len(mission[1].objects) :
            Unresolved(mission[1], mission[1].objects[i]) =>
                /\ pc = "returned"
                /\ LimitErrorsReported
                /\ Reported("Object", i - 1, mission[1].objects[i].route_id)

\* C16: no step of validation changes the Mission: while the limit, route
\* point and reference passes run, mission keeps its value.
C16_ValidationReadOnly ==
    [][(pc \in {"limits", "points", "references"}) => (mission' = mission)]_vars

\* C16 witness: all three passes have run on a Mission holding an object, and
\* found something to report
C16_Witness ==
    /\ Decoded
    /\ pc = "returned"
    /\ Len(mission[1].objects) = 1
    /\ Len(result.errors) = 2
    /\ result.info /= <<>>

\* C17: is_valid holds of the result exactly when its errors list is empty,
\* and main exits with status 0 exactly then, whatever the warnings and info.
C17_ValidIffNoErrors ==
    /\ is_valid(result) <=> (result.errors = <<>>)
    /\ status /= None => ((status = 0) <=> (result.errors = <<>>))

\* C17 witness: main exited with status 0 on a result that holds a warning
C17_Witness ==
    /\ status = 0
    /\ result.warnings /= <<>>
    /\ result.errors = <<>>

\* info before warnings before errors
Rank(level) == CASE level = "INFO" -> 1 [] level = "WARNING" -> 2 [] level = "ERROR" -> 3

\* C18: what print_results printed holds no line after a line of a later
\* group (info, then warnings, then errors), and the lines of each group
\* are the messages of that list, in the order they were added.
C18_InfoThenWarningsThenErrors ==
    out /= <<>> =>
        /\ \A i, j \in 1..Len(out[1]) :
              i < j => Rank(out[1][i].level) <= Rank(out[1][j].level)
        /\ SelectSeq(out[1], LAMBDA line : line.level = "INFO") = result.info
        /\ SelectSeq(out[1], LAMBDA line : line.level = "WARNING") = result.warnings
        /\ SelectSeq(out[1], LAMBDA line : line.level = "ERROR") = result.errors

\* C18 witness: 51 cars; the limit check adds the error before the info
\* line, and the info line is printed first
C18_Witness ==
    /\ out /= <<>>
    /\ Len(out[1]) = 2
    /\ out[1][1] = Prefixed("INFO", Msg("Count", "Cars", 51, 50))
    /\ out[1][2] = Prefixed("ERROR", Msg("Too many", "cars", 51, 50))

\* the points of all routes of the raw document
RawPoints ==
    LET pts(rs) == Concat([i \in 1..Len(rs) |-> Get(rs[i], "points", <<>>)])
    IN Len(pts(doc.paths.routes) \o pts(doc.paths.movements)
               \o pts(doc.paths.displacements))

\* C19: a document whose items all satisfy their own constraints decodes
\* into a Mission, whatever its collection sizes and references; when a
\* collection is over its limit or the routes over the point budget,
\* validation returns a result that holds an error and is not valid.
C19_LimitsLeftToValidation ==
    (Over /\ file = "ok" /\ FailingItems = {}) =>
        /\ Decoded
        /\ (\/ \E l \in DocumentedLimits : Len(doc[l[1]]) > l[2]
            \/ RawPoints > 399)
              => (pc = "returned" /\ ~is_valid(result))

\* C20: in a decoded Mission every Object has a route_id exactly when its
\* behaviour is 1, 2, 3 or 4.
C20_RouteIdIffBehaviour ==
    Decoded =>
        \A i \in 1..Len(mission[1].objects) :
            (mission[1].objects[i].route_id /= None)
                <=> (mission[1].objects[i].behaviour \in 1..4)

(***************************************************************************)
(* Enumerations, composites, and the remaining properties of validation.   *)
(***************************************************************************)
\* C21: in a decoded Mission every field that carries an enumeration holds
\* a value within the documented range of that enumeration: an Actor's
\* weapon within 0..48 and gang within 4..26, a checkpoint's radar marker
\* within -1..4 and shape within 0..5, a weather objective's weather within
\* 0..22, a citizen-behaviour mode within 0..4, the car model of a car
\* objective within 400..611, the object model of an object objective not
\* below -467.
C21_EnumerationsRejectOutOfRange ==
    Decoded =>
        /\ \A i \in 1..Len(mission[1].actors) :
              /\ mission[1].actors[i].weapon \in 0..48
              /\ mission[1].actors[i].gang \in 4..26
        /\ \A i \in 1..Len(mission[1].objectives) :
              LET o == mission[1].objectives[i]
                  t == o.objective_type
              IN /\ t = 2 => (o.radar_marker \in -1..4 /\ o.shape \in 0..5)
                 /\ t = 11 => o.weather \in 0..22
                 /\ t = 13 => o.mode \in 0..4
                 /\ t \in {1, 9} => o.car_id \in 400..611
                 /\ t = 19 => o.object_id >= -467

DuplicateRouteIds ==
    \E l \in RouteLists :
        \E i, j \in 1..Len(doc.paths[l]) :
            /\ i < j
            /\ "id" \in DOMAIN doc.paths[l][i]
            /\ "id" \in DOMAIN doc.paths[l][j]
            /\ doc.paths[l][i].id = doc.paths[l][j].id

\* C26: a document in which two routes of the same list carry the same id
\* does not come out of validate_mission_file decoded and without error.
C26_RouteIdsUnique ==
    (pc = "returned" /\ DuplicateRouteIds) => (~Decoded \/ ~is_valid(result))

\* the number of messages of msgs about the given collection or total
Emitted(msgs, what) == Cardinality({i \in 1..Len(msgs) : msgs[i].what = what})

\* error and warning of a limit check exclude each other
OneOfErrorWarning(what, count, max) ==
    /\ Emitted(result.errors, what) + Emitted(result.warnings, what) <= 1
    /\ count > max =>
          /\ Emitted(result.errors, what) = 1
          /\ Emitted(result.warnings, what) = 0
    /\ 10 * count <= 9 * max =>
          /\ Emitted(result.errors, what) = 0
          /\ Emitted(result.warnings, what) = 0

\* C27: for each of the five collections once the population-limits check
\* has run, and for the route-point total once the route-point check has
\* run, the result holds at most one of the check's error and warning; over
\* the maximum it holds the error and no warning, at or below 90% of the
\* maximum neither.
C27_ErrorExcludesWarning ==
    /\ LimitsRan =>
          \A l \in DocumentedLimits :
              OneOfErrorWarning(l[1], Len(mission[1][l[1]]), l[2])
    /\ PointsRan => OneOfErrorWarning("routes", AllPoints(mission[1]), 399)

\* C27 witness: 51 cars, the error and no warning
C27_Witness ==
    /\ LimitsRan
    /\ Len(mission[1].cars) = 51
    /\ Emitted(result.errors, "cars") = 1
    /\ Emitted(result.warnings, "cars") = 0

ClaimedOrder == <<"objectives", "actors", "cars", "pickups", "objects">>

\* the place of a message in the claimed order: the five population limits,
\* the route-point total, then the references of actors, objects, objectives
PassRank(msg) ==
    CASE msg.text \in {"Too many", "Approaching limit for"} ->
             CHOOSE k \in 1..5 : ClaimedOrder[k] = msg.what
      [] msg.text = "Count" ->
             CHOOSE k \in 1..5 : capitalize(ClaimedOrder[k]) = msg.what
      [] msg.what = "routes" -> 6
      [] msg.what = "Actor" -> 7
      [] msg.what = "Object" -> 8
      [] msg.what = "Objective" -> 9

\* the messages of msgs are in the claimed order, reference messages of one
\* kind in ascending index
InClaimedOrder(msgs) ==
    \A i, j \in 1..Len(msgs) :
        i < j =>
            \/ PassRank(msgs[i]) < PassRank(msgs[j])
            \/ /\ PassRank(msgs[i]) = PassRank(msgs[j])
               /\ PassRank(msgs[i]) >= 7
               /\ msgs[i].n < msgs[j].n

\* C29: whenever a Mission was decoded, the errors, the warnings and the
\* info lines are each ordered by pass and then by position: population
\* limits in the order objectives, actors, cars, pickups, objects, then the
\* route-point total, then references of actors, of objects, of objectives,
\* each in ascending index.
C29_OrderedByPassThenPosition ==
    Decoded =>
        /\ InClaimedOrder(result.errors)
        /\ InClaimedOrder(result.warnings)
        /\ InClaimedOrder(result.info)

\* C29 witness: errors of two population limits, of the route-point total
\* and of two objects
C29_Witness ==
    /\ pc = "returned"
    /\ Len(result.errors) = 5
    /\ result.errors[1].what = "cars"
    /\ result.errors[3].what = "routes"
    /\ result.errors[4].what = "Object" /\ result.errors[4].n = 0
    /\ result.errors[5].what = "Object" /\ result.errors[5].n = 1
    /\ Len(result.info) >= 4

\* C30: once a path that does not load has been tried, validate_mission_file
\* has returned a result that is not valid, with one error, no info line
\* and no warning, and no Mission was decoded; the error is 'File not found'
\* for a missing file and 'Invalid JSON' for unparsable JSON.
C30_NoPassWhenNotLoaded ==
    (file /= "ok" /\ pc /= "load") =>
        /\ pc = "returned"
        /\ ~Decoded
        /\ ~is_valid(result)
        /\ Len(result.errors) = 1
        /\ result.info = <<>>
        /\ result.warnings = <<>>
        /\ file = "missing" => result.errors[1].text = "File not found"
        /\ file = "invalid_json" => result.errors[1].text = "Invalid JSON"

\* C30 witness: main exited with status 1 on a path with unparsable JSON
\* that was meant to hold 51 cars
C30_Witness ==
    /\ file = "invalid_json"
    /\ Len(doc.cars) = 51
    /\ status = 1
    /\ result.errors = <<Prefixed("ERROR", Msg("Invalid JSON", "file", 0, 0))>>

\* a packed interior composite is legal when its components are ones Object
\* takes and no other bit is set
LegalInterior(x) ==
    /\ interior_decode(x) \in InteriorParts
    /\ (x \div 8) % 8 = 0

\* C22: the interior composite of components (i, b) is i + b * 64; decoding
\* what was encoded from components i in 0..7 and b in 0..4 gives the
\* components back, encoding what was decoded from a legal packed integer
\* gives the integer back, (2, 3) encodes to 194 and 194 decodes to (2, 3).
C22_InteriorRoundTrip ==
    /\ (codec.op = "interior_encode_first" /\ codec.at /= "start") =>
          /\ codec.packed = codec.c.interior + codec.c.behaviour * 64
          /\ codec.c = [interior |-> 2, behaviour |-> 3] => codec.packed = 194
          /\ codec.at = "done" => codec.parts = codec.c
    /\ (codec.op = "interior_decode_first" /\ codec.at /= "start") =>
          /\ codec.x = 194 => codec.parts = [interior |-> 2, behaviour |-> 3]
          /\ (codec.at = "done" /\ LegalInterior(codec.x)) => codec.packed = codec.x

\* C22 witness: (2, 3) was encoded to 194 and decoded again
C22_Witness ==
    /\ codec.op = "interior_encode_first"
    /\ codec.at = "done"
    /\ codec.c = [interior |-> 2, behaviour |-> 3]
    /\ codec.packed = 194
    /\ codec.parts = codec.c

\* C24: a flags integer that was decoded into the named booleans and encoded
\* again is the integer given.
C24_UnmappedBitsPreserved ==
    (codec.op = "flags_decode_first" /\ codec.at = "done") => codec.packed = codec.x

====
